---- MODULE Spec2Model ----
(***************************************************************************)
(* Model of app.py: the numerology functions (calculate_single_digit,      *)
(* calculate_lp, calculate_pd, get_lucky_numbers), the language-model      *)
(* caption with its fallback, and the webhook handler handle_message that  *)
(* routes a text message, reads the UTC+8 clock and issues the reply.      *)
(*                                                                         *)
(* Text is a sequence of one-character strings.  A keyword written in CJK  *)
(* characters in the source is one opaque token (its pinyin), because the  *)
(* handler only ever compares keywords as wholes.                          *)
(***************************************************************************)
EXTENDS Integers, Sequences, FiniteSets, TLC

VARIABLES clock, ticks, events, pc, frame, llm, replies, log, arg, ret

vars == <<clock, ticks, events, pc, frame, llm, replies, log, arg, ret>>

(* ------------------------------ bounds --------------------------------- *)

\* Clock advances (one hour each) allowed in a behaviour.
MaxTicks == 2

\* Message events handled in a behaviour.
MaxEvents == 2

\* Largest argument given to calculate_single_digit on its own.
MaxN == 999

\* Birth years given to calculate_lp on its own.
YearLo == 1980
YearHi == 2003

(* ---------------------- str(), int(), formatting ----------------------- *)

Digits == <<"0", "1", "2", "3", "4", "5", "6", "7", "8", "9">>

IsDigit(c) == \E i \in 1..10 : Digits[i] = c

DigitVal(c) == (CHOOSE i \in 1..10 : Digits[i] = c) - 1

\* str(n) for n >= 0: the base-10 numeral, most significant digit first.
RECURSIVE str(_)
str(n) == IF n < 10 THEN <<Digits[n + 1]>>
          ELSE Append(str(n \div 10), Digits[(n % 10) + 1])

\* int(s) for a non-empty string of digits (leading zeros allowed).
RECURSIVE int(_)
int(s) == IF Len(s) = 0 THEN 0
          ELSE 10 * int(SubSeq(s, 1, Len(s) - 1)) + DigitVal(s[Len(s)])

RECURSIVE SumSeq(_)
SumSeq(s) == IF Len(s) = 0 THEN 0 ELSE DigitVal(Head(s)) + SumSeq(Tail(s))

\* sum(int(d) for d in str(n))
digit_sum(n) == SumSeq(str(n))

\* f"{num:02d}" for num >= 0: at least two characters, padded with "0".
fmt02d(num) == IF num < 10 THEN <<"0">> \o str(num) ELSE str(num)

(* ------------------------ 1. core computations ------------------------- *)

MasterNumbers == {11, 22, 33}

\* A reducer that tests the loop condition once (if in place of while).
single_step_reduce(n) ==
    IF n > 9 /\ n \notin MasterNumbers THEN digit_sum(n) ELSE n

\* A reducer that sums the digits of a multi-digit number before it tests
\* for a master number (do-while in place of while).
RECURSIVE sum_first_reduce(_)
sum_first_reduce(n) ==
    IF n <= 9 THEN n
    ELSE LET s == digit_sum(n)
         IN  IF s > 9 /\ s \notin MasterNumbers THEN sum_first_reduce(s) ELSE s

RECURSIVE calculate_single_digit(_)
calculate_single_digit(n) ==
    IF n > 9 /\ n \notin MasterNumbers
    THEN calculate_single_digit(digit_sum(n))
    ELSE n

\* total of the three digit sums, the local of calculate_lp
lp_total(year, month, day) == digit_sum(year) + digit_sum(month) + digit_sum(day)

\* A life-path computation that collapses a master number to one digit.
calculate_lp_collapsed(year, month, day) ==
    LET r == calculate_single_digit(lp_total(year, month, day))
    IN  IF r < 10 THEN r ELSE digit_sum(r)

calculate_lp(year, month, day) ==
    calculate_single_digit(lp_total(year, month, day))

\* now is the value datetime.now(tz) returned inside the call.
calculate_pd(month, day, now) ==
    calculate_single_digit(digit_sum(month) + digit_sum(day)
                           + digit_sum(now.year) + digit_sum(now.month)
                           + digit_sum(now.day))

\* A seed that leaves the birth day out.
seed_without_birth_day(lp, pd, day, now) ==
    LET lp_single == IF lp < 10 THEN lp ELSE digit_sum(lp)
        pd_single == IF pd < 10 THEN pd ELSE digit_sum(pd)
    IN  (lp_single * pd_single * now.day) % 100

lucky_seed(lp, pd, day, now) ==
    LET lp_single == IF lp < 10 THEN lp ELSE digit_sum(lp)
        pd_single == IF pd < 10 THEN pd ELSE digit_sum(pd)
    IN  (lp_single * pd_single * (day + now.day)) % 100

\* The candidates of the earlier revision: offsets 0, 10, 20.
raw_list_small_offsets(seed) ==
    <<seed % 50, (seed + 10) % 50, (seed + 20) % 50>>

raw_list(seed) == <<seed % 50, (seed + 15) % 50, (seed + 33) % 50>>

\* Formatting without the 0-to-1 remap.
final_list_no_remap(raw) == [i \in 1..Len(raw) |-> fmt02d(raw[i])]

final_list(raw) ==
    [i \in 1..Len(raw) |-> fmt02d(IF raw[i] = 0 THEN 1 ELSE raw[i])]

get_lucky_numbers(lp, pd, day, now) ==
    final_list(raw_list(lucky_seed(lp, pd, day, now)))

(* ------------------------- the UTC+8 clock ----------------------------- *)

\* clock is the system's instant, as a UTC civil date and hour.
IsLeap(y) == (y % 4 = 0 /\ y % 100 # 0) \/ y % 400 = 0

DaysInMonth(y, m) ==
    IF m = 2 THEN (IF IsLeap(y) THEN 29 ELSE 28)
    ELSE IF m \in {4, 6, 9, 11} THEN 30 ELSE 31

NextDay(t) ==
    IF t.day < DaysInMonth(t.year, t.month) THEN [t EXCEPT !.day = t.day + 1]
    ELSE IF t.month < 12 THEN [t EXCEPT !.month = t.month + 1, !.day = 1]
    ELSE [t EXCEPT !.year = t.year + 1, !.month = 1, !.day = 1]

AddHours(t, h) ==
    IF t.hour + h < 24 THEN [t EXCEPT !.hour = t.hour + h]
    ELSE [NextDay(t) EXCEPT !.hour = t.hour + h - 24]

\* datetime.now(timezone(timedelta(hours=8)))
TzOffsetHours == 8

now_tz8(clk) == AddHours(clk, TzOffsetHours)

\* The calendar date of a datetime.
DateOf(t) == <<t.year, t.month, t.day>>

\* "%Y / %m / %d" is the date of the card's header; kept as the date.
today_str(clk) == DateOf(now_tz8(clk))

(* ----------------------- 2. the generated caption ---------------------- *)

LlmText == "llm_text"
Fallback == "fallback_text"
Raised == "Exception"

\* The call without its try/except: the client's error leaves the function.
generate_short_analysis_uncaught(lp, lucky_numbers, outcome) ==
    IF outcome = "ok" THEN LlmText ELSE Raised

\* outcome is what client.chat.completions.create does: "ok" or "error".
generate_short_analysis(lp, lucky_numbers, outcome) ==
    IF outcome = "ok" THEN LlmText ELSE Fallback

(* --------------------------- message texts ----------------------------- *)

CarouselKeywords == {<<"gonglue">>, <<"guaguale">>, <<"tuijian">>,
                     <<"2026guaguale-tuijian">>, <<"2026guaguale-gonglue">>}

PreviewKeyword == <<"wuxingbagua">>

UsageKeywords == {<<"shiyongshuoming">>, <<"zenmeyong">>, <<"jiaoxue">>}

\* str.strip(): leading and trailing blanks removed.
RECURSIVE strip(_)
strip(t) ==
    IF Len(t) = 0 THEN t
    ELSE IF Head(t) = " " THEN strip(Tail(t))
    ELSE IF t[Len(t)] = " " THEN strip(SubSeq(t, 1, Len(t) - 1))
    ELSE t

AllDigits(s) == \A i \in 1..Len(s) : IsDigit(s[i])

Separators == {"-", "/"}

\* re.match(r'^(\d{4})[-/](\d{1,2})[-/](\d{1,2})$', t): the set of group
\* triples of a match (empty or a singleton).
re_match(t) ==
    IF Len(t) \notin 8..10 THEN {}
    ELSE { g \in { <<SubSeq(t, 1, 4), SubSeq(t, 6, 5 + a), SubSeq(t, 7 + a, Len(t))>> :
                     a \in { x \in 1..2 : Len(t) - 6 - x \in 1..2 } } :
             /\ AllDigits(g[1]) /\ AllDigits(g[2]) /\ AllDigits(g[3])
             /\ t[5] \in Separators
             /\ t[6 + Len(g[2])] \in Separators }

\* int() raises ValueError on a group that is not a numeral.
int_raises(g) == Len(g) = 0 \/ ~AllDigits(g)

\* The texts a user sends.
Texts == {
    <<"gonglue">>, <<"tuijian">>, <<"wuxingbagua">>, <<"jiaoxue">>,
    <<"hello">>,
    <<"n", "o", "t", "-", "a", "-", "d", "a", "t", "e">>,
    <<"1", "9", "9", "0", "-", "0", "5", "-", "2", "0">>,
    <<" ", "1", "9", "9", "0", "/", "5", "/", "2", "0", " ">>,
    <<"2", "0", "0", "0", "-", "0", "1", "-", "0", "8">>,
    <<"1", "9", "9", "0", "-", "0", "5", "-", "2", "0", "0">>,
    <<"1", "8", "9", "9", "-", "0", "1", "-", "0", "1">>,
    <<"2", "0", "3", "5", "-", "0", "2", "-", "3", "0">>,
    <<"1", "9", "9", "0", "-", "1", "3", "-", "0", "1">>,
    <<"0", "0", "0", "0", "-", "0", "-", "0">> }

\* The instants a behaviour starts at (UTC): 22:00 on 2024-06-15 and 23:00
\* on 2024-12-31 in UTC+8.
StartClocks == { [year |-> 2024, month |-> 6, day |-> 15, hour |-> 14],
                 [year |-> 2024, month |-> 12, day |-> 31, hour |-> 15] }

(* ------------------------------ state ---------------------------------- *)

\* frame holds the locals of the running handle_message call: a name is in
\* its domain once the code has assigned it.
Bind(f, name, val) ==
    [x \in (DOMAIN f) \cup {name} |-> IF x = name THEN val ELSE f[x]]

Has(name) == name \in DOMAIN frame

EmptyFrame == [x \in {} |-> 0]

NoArg == <<>>
NoRet == <<>>

\* No message is being handled and none has been.
HandlerIdle ==
    /\ ticks = 0
    /\ events = 0
    /\ pc = "idle"
    /\ frame = EmptyFrame
    /\ llm = "none"
    /\ replies = <<>>
    /\ log = {}

Init ==
    /\ clock \in StartClocks
    /\ HandlerIdle
    /\ arg = NoArg
    /\ ret = NoRet

handlerVars == <<events, pc, frame, llm, replies, log>>

(* ------------------------------ actions -------------------------------- *)

\* The system clock moves on by one hour; it can do so at any point of a
\* handler's run.
Tick ==
    /\ ticks < MaxTicks
    /\ ticks' = ticks + 1
    /\ clock' = AddHours(clock, 1)
    /\ UNCHANGED <<handlerVars, arg, ret>>

\* line_bot_api.reply_message_with_http_info(ReplyMessageRequest(...))
Reply(msg) == replies' = Append(replies, msg)

\* user_text = event.message.text.strip(), the first local
Entered(text) == Bind(EmptyFrame, "user_text", strip(text))

\* A message event arrives: handle_message starts with fresh locals.
Arrive(text) ==
    /\ pc = "idle"
    /\ events < MaxEvents
    /\ events' = events + 1
    /\ llm' = "none"

\* 1. the carousel keywords
ReplyCarousel ==
    \E text \in Texts :
        /\ Arrive(text)
        /\ strip(text) \in CarouselKeywords
        /\ replies' = <<[kind |-> "carousel"]>>
        /\ frame' = Entered(text)
        /\ pc' = "idle"
        /\ UNCHANGED <<clock, ticks, log, arg, ret>>

\* 2. the feature preview
ReplyPreview ==
    \E text \in Texts :
        /\ Arrive(text)
        /\ strip(text) \notin CarouselKeywords
        /\ strip(text) = PreviewKeyword
        /\ replies' = <<[kind |-> "text", text |-> "preview"]>>
        /\ frame' = Entered(text)
        /\ pc' = "idle"
        /\ UNCHANGED <<clock, ticks, log, arg, ret>>

\* 3. the usage keywords
ReplyUsage ==
    \E text \in Texts :
        /\ Arrive(text)
        /\ strip(text) \notin CarouselKeywords
        /\ strip(text) # PreviewKeyword
        /\ strip(text) \in UsageKeywords
        /\ replies' = <<[kind |-> "text", text |-> "usage"]>>
        /\ frame' = Entered(text)
        /\ pc' = "idle"
        /\ UNCHANGED <<clock, ticks, log, arg, ret>>

IsKeyword(t) ==
    t \in CarouselKeywords \/ t = PreviewKeyword \/ t \in UsageKeywords

\* the default guidance, for a text the pattern does not match
ReplyHelp ==
    \E text \in Texts :
        /\ Arrive(text)
        /\ ~IsKeyword(strip(text))
        /\ re_match(strip(text)) = {}
        /\ replies' = <<[kind |-> "text", text |-> "help"]>>
        /\ frame' = Entered(text)
        /\ pc' = "idle"
        /\ UNCHANGED <<clock, ticks, log, arg, ret>>

\* 4. a text the pattern matches: the groups become year, month and day and
\* calculate_lp runs; a ValueError of int() is answered with the
\* invalid-date text.
BeginBirthday ==
    \E text \in Texts :
        /\ Arrive(text)
        /\ ~IsKeyword(strip(text))
        /\ re_match(strip(text)) # {}
        /\ LET g == CHOOSE m \in re_match(strip(text)) : TRUE
               f0 == Entered(text)
           IN  IF int_raises(g[1]) \/ int_raises(g[2]) \/ int_raises(g[3])
               THEN /\ frame' = f0
                    /\ replies' = <<[kind |-> "text", text |-> "invalid_date"]>>
                    /\ pc' = "idle"
               ELSE LET year == int(g[1])
                        month == int(g[2])
                        day == int(g[3])
                        f1 == Bind(Bind(Bind(f0, "year", year), "month", month),
                                   "day", day)
                    IN  /\ frame' = Bind(f1, "lp", calculate_lp(year, month, day))
                        /\ replies' = <<>>
                        /\ pc' = "calculate_pd"
        /\ UNCHANGED <<clock, ticks, log, arg, ret>>

\* pd = calculate_pd(month, day): the first read of the clock
CalculatePd ==
    /\ pc = "calculate_pd"
    /\ LET now == now_tz8(clock)
       IN  frame' = Bind(Bind(frame, "now_pd", now),
                         "pd", calculate_pd(frame.month, frame.day, now))
    /\ pc' = "get_lucky_numbers"
    /\ UNCHANGED <<clock, ticks, events, llm, replies, log, arg, ret>>

\* lucky_numbers = get_lucky_numbers(lp, pd, day): the second read of the
\* clock.  log keeps every finished computation.
GetLuckyNumbers ==
    /\ pc = "get_lucky_numbers"
    /\ LET now == now_tz8(clock)
           lucky == get_lucky_numbers(frame.lp, frame.pd, frame.day, now)
       IN  /\ frame' = Bind(Bind(Bind(frame, "now_lucky", now),
                                 "seed", lucky_seed(frame.lp, frame.pd, frame.day, now)),
                            "lucky_numbers", lucky)
           /\ log' = log \cup { [birth |-> <<frame.year, frame.month, frame.day>>,
                                 ref |-> DateOf(frame.now_pd),
                                 lp |-> frame.lp, pd |-> frame.pd,
                                 lucky_numbers |-> lucky] }
    /\ pc' = "generate_short_analysis"
    /\ UNCHANGED <<clock, ticks, events, llm, replies, arg, ret>>

\* ai_text = generate_short_analysis(lp, lucky_numbers); an exception that
\* leaves it is no ValueError, so it leaves handle_message too.
GenerateShortAnalysis ==
    /\ pc = "generate_short_analysis"
    /\ \E outcome \in {"ok", "error"} :
        LET r == generate_short_analysis(frame.lp, frame.lucky_numbers, outcome)
        IN  /\ llm' = outcome
            /\ IF r = Raised
               THEN /\ pc' = "idle"
                    /\ frame' = frame
               ELSE /\ pc' = "create_flex_bubble"
                    /\ frame' = Bind(frame, "ai_text", r)
    /\ UNCHANGED <<clock, ticks, events, replies, log, arg, ret>>

\* flex_message = create_flex_bubble(lp, lucky_numbers, ai_text), which
\* reads the clock for the header, and the reply that carries it
ReplyFlex ==
    /\ pc = "create_flex_bubble"
    /\ Reply([kind |-> "flex", lp |-> frame.lp,
              lucky_numbers |-> frame.lucky_numbers,
              ai_text |-> frame.ai_text, today |-> today_str(clock)])
    /\ pc' = "idle"
    /\ UNCHANGED <<clock, ticks, events, frame, llm, log, arg, ret>>

Next ==
    \/ Tick
    \/ ReplyCarousel
    \/ ReplyPreview
    \/ ReplyUsage
    \/ ReplyHelp
    \/ BeginBirthday
    \/ CalculatePd
    \/ GetLuckyNumbers
    \/ GenerateShortAnalysis
    \/ ReplyFlex

Spec == Init /\ [][Next]_vars

(* ------------- the functions on their own, over all inputs ------------- *)

\* reference instants whose UTC+8 day is 1..31
DayClocks == { [year |-> 2024, month |-> 7, day |-> d, hour |-> 0] : d \in 1..31 }

RootNumbers == (1..9) \cup MasterNumbers

\* the modulus of the seed: seeds are 0..99
SeedModulus == 100

Applied == ret # NoRet

\* calculate_single_digit(n) for n in 0..MaxN
InitReduce ==
    /\ clock \in StartClocks
    /\ HandlerIdle
    /\ arg \in { <<n>> : n \in 0..MaxN }
    /\ ret = NoRet

ApplyReduce ==
    /\ ~Applied
    /\ ret' = <<calculate_single_digit(arg[1])>>
    /\ UNCHANGED <<clock, ticks, handlerVars, arg>>

SpecReduce == InitReduce /\ [][ApplyReduce]_vars

\* calculate_lp(year, month, day) for the birth years YearLo..YearHi
InitLp ==
    /\ clock \in StartClocks
    /\ HandlerIdle
    /\ arg \in { <<y, m, d>> : y \in YearLo..YearHi, m \in 1..12, d \in 1..31 }
    /\ ret = NoRet

ApplyLp ==
    /\ ~Applied
    /\ ret' = <<calculate_lp(arg[1], arg[2], arg[3])>>
    /\ UNCHANGED <<clock, ticks, handlerVars, arg>>

SpecLp == InitLp /\ [][ApplyLp]_vars

\* get_lucky_numbers(lp, pd, day) for every root number lp and pd, every
\* birth day and every reference day
InitLucky ==
    /\ clock \in DayClocks
    /\ HandlerIdle
    /\ arg \in { <<l, p, d>> : l \in RootNumbers, p \in RootNumbers, d \in 1..31 }
    /\ ret = NoRet

ApplyLucky ==
    /\ ~Applied
    /\ ret' = <<get_lucky_numbers(arg[1], arg[2], arg[3], now_tz8(clock))>>
    /\ UNCHANGED <<clock, ticks, handlerVars, arg>>

SpecLucky == InitLucky /\ [][ApplyLucky]_vars

\* the candidates and their formatting for every seed
InitSeed ==
    /\ clock \in StartClocks
    /\ HandlerIdle
    /\ arg \in { <<s>> : s \in 0..(SeedModulus - 1) }
    /\ ret = NoRet

ApplySeed ==
    /\ ~Applied
    /\ ret' = <<final_list(raw_list(arg[1]))>>
    /\ UNCHANGED <<clock, ticks, handlerVars, arg>>

SpecSeed == InitSeed /\ [][ApplySeed]_vars

(* ------------------------------ claims --------------------------------- *)

Abs(x) == IF x < 0 THEN -x ELSE x

\* C1, as stated: calculate_single_digit(n) is in {1..9, 11, 22, 33} for
\* every n >= 0, n = 0 included.
C1_RootForEveryN == Applied => ret[1] \in RootNumbers

\* C1, amended: calculate_single_digit(n) is in {1..9, 11, 22, 33} for every
\* n >= 1, and calculate_single_digit(0) is 0.
C1_RootForPositiveN ==
    Applied => IF arg[1] = 0 THEN ret[1] = 0 ELSE ret[1] \in RootNumbers

C1_Witness == arg = <<29>> /\ ret = <<11>>

\* C7: calculate_single_digit applied to its own result returns that result.
C7_Idempotent == Applied => calculate_single_digit(ret[1]) = ret[1]

C7_Witness == arg = <<38>> /\ ret = <<11>>

\* C8: when the digit total of a birth date is 11, 22 or 33, calculate_lp
\* returns the total itself.
C8_MasterRetained ==
    (Applied /\ lp_total(arg[1], arg[2], arg[3]) \in MasterNumbers)
        => ret[1] = lp_total(arg[1], arg[2], arg[3])

C8_Witness == Applied /\ lp_total(arg[1], arg[2], arg[3]) = 33 /\ ret = <<33>>

\* C5: get_lucky_numbers returns three strings, each of two decimal digits
\* with a value in 1..49 (so none is "00").
C5_ThreeTwoDigitCodes ==
    Applied =>
        /\ Len(ret[1]) = 3
        /\ \A i \in 1..3 :
            /\ Len(ret[1][i]) = 2
            /\ AllDigits(ret[1][i])
            /\ int(ret[1][i]) \in 1..49

C5_Witness ==
    /\ Applied
    /\ lucky_seed(arg[1], arg[2], arg[3], now_tz8(clock)) = 35
    /\ ret[1] = << <<"3", "5">>, <<"0", "1">>, <<"1", "8">> >>

\* C9: for every seed the three returned numbers differ pairwise by at
\* least 10, so the three codes are pairwise distinct.
C9_PairwiseGaps ==
    Applied =>
        \A i \in 1..3 : \A j \in 1..3 :
            i # j => /\ Abs(int(ret[1][i]) - int(ret[1][j])) >= 10
                     /\ ret[1][i] # ret[1][j]

C9_Witness == arg = <<0>> /\ Applied /\ ret[1][1] = <<"0", "1">>

\* A real calendar date whose year lies in [1900, currentYear].
ValidBirthDate(year, month, day, currentYear) ==
    /\ year \in 1900..currentYear
    /\ month \in 1..12
    /\ day \in 1..DaysInMonth(year, month)

Finished == pc = "idle" /\ events > 0

\* C2: a numerology result is computed only for a real calendar date with
\* its year in [1900, currentYear]; a text of the date pattern that denotes
\* no such date is answered with the validation failure.
C2_OnlyValidDatesGetResult ==
    /\ Has("lp") => ValidBirthDate(frame.year, frame.month, frame.day,
                                   now_tz8(clock).year)
    /\ (Finished /\ re_match(frame.user_text) # {} /\ ~Has("lp"))
           => replies = <<[kind |-> "text", text |-> "invalid_date"]>>

\* C3: within one request calculate_pd and get_lucky_numbers use the same
\* calendar date.
C3_OneReferenceDate ==
    Has("now_lucky") => DateOf(frame.now_pd) = DateOf(frame.now_lucky)

\* C4: two computations for the same birth date on the same UTC+8 reference
\* day give the same LP, PD and lucky codes.
C4_Deterministic ==
    \A a \in log : \A b \in log :
        (a.birth = b.birth /\ a.ref = b.ref)
            => (a.lp = b.lp /\ a.pd = b.pd /\ a.lucky_numbers = b.lucky_numbers)

FixtureBirth ==
    Has("year") /\ frame.year = 1990 /\ frame.month = 5 /\ frame.day = 20

FixtureDay == <<2024, 6, 15>>

\* C6: for birth date 1990-05-20 and reference date 2024-06-15, LP is 8, PD
\* is 9, the seed is 20 and the codes are "20", "35", "03" in this order.
C6_Fixture ==
    FixtureBirth =>
        /\ frame.lp = 8
        /\ (Has("pd") /\ DateOf(frame.now_pd) = FixtureDay) => frame.pd = 9
        /\ (Has("lucky_numbers") /\ DateOf(frame.now_pd) = FixtureDay
              /\ DateOf(frame.now_lucky) = FixtureDay)
             => /\ frame.seed = 20
                /\ frame.lucky_numbers
                     = << <<"2", "0">>, <<"3", "5">>, <<"0", "3">> >>

C6_Witness ==
    /\ FixtureBirth
    /\ Finished
    /\ DateOf(frame.now_pd) = FixtureDay
    /\ DateOf(frame.now_lucky) = FixtureDay
    /\ Len(replies) = 1
    /\ replies[1].kind = "flex"
    /\ replies[1].lp = 8
    /\ replies[1].lucky_numbers = << <<"2", "0">>, <<"3", "5">>, <<"0", "3">> >>

\* C10: every message event gets exactly one reply request, whatever the
\* path, and when the language-model call fails the card is still sent, with
\* the fallback text.
C10_OneReplyPerEvent ==
    /\ Len(replies) <= 1
    /\ Finished => Len(replies) = 1
    /\ (Finished /\ llm = "error")
           => (replies[1].kind = "flex" /\ replies[1].ai_text = Fallback)

C10_Witness ==
    /\ Finished
    /\ llm = "error"
    /\ replies = <<[kind |-> "flex", lp |-> frame.lp,
                    lucky_numbers |-> frame.lucky_numbers,
                    ai_text |-> Fallback, today |-> replies[1].today]>>

====
